---- MODULE Spec2Model ----
(***************************************************************************)
(* Model of the stack_cstr crate: construction of NUL-terminated strings   *)
(* in a fixed inline buffer (CStrStack<N>, CArrayString::Stack) with a     *)
(* heap fallback (CStrHeap, CArrayString::Heap), the cstr! selection       *)
(* macro, the conversions from existing data and the accessors.            *)
(*                                                                         *)
(* Bytes are small naturals, 0 is NUL.  A text is a sequence of bytes.     *)
(* A value is a record [tag, cap, buf, len]; a constructor's outcome is a  *)
(* record [status, err, val, tried, heap].                                 *)
(***************************************************************************)
EXTENDS Integers, Sequences, FiniteSets

\* ------------------------------------------------------------------ bounds
\* longest text drawn for formatter output and conversion sources
MaxLen == 3
\* largest inline capacity N drawn for the const parameter
MaxCap == 4

\* the two default candidate sizes of cstr!
DefaultSmall == 32
DefaultLarge == 128

NUL == 0
Bytes == {0, 1, 2}
NonNul == Bytes \ {NUL}

Caps == 0..MaxCap

SeqsUpTo(S, n) == UNION {[1..k -> S] : k \in 0..n}

\* every text up to MaxLen, with or without NUL bytes
Texts == SeqsUpTo(Bytes, MaxLen)
\* raw byte slices handed to TryFrom<&[u8]> (one longer, for the terminator)
ByteSlices == SeqsUpTo(Bytes, MaxLen + 1)

Repeat(b, n) == [i \in 1..n |-> b]

\* lengths around the default candidates ("x".repeat(100), "x".repeat(300))
ProbeLens == {5, DefaultSmall - 1, DefaultSmall, 100, DefaultLarge - 1, DefaultLarge, 300}

HasNul(s) == \E i \in 1..Len(s) : s[i] = NUL

\* index (1-based) of the first NUL of s, or Len(s) + 1 when there is none
memchr0(s) ==
    IF HasNul(s)
    THEN CHOOSE i \in 1..Len(s) : s[i] = NUL /\ \A j \in 1..(i - 1) : s[j] # NUL
    ELSE Len(s) + 1

Prefix(s, n) == SubSeq(s, 1, n)

\* ------------------------------------------------------ the formatter input
\* std::fmt::Arguments: the literal/argument pieces written one after the
\* other (as the first evaluation and rendering produces them), whether a
\* Display implementation reports an error after them, and what the argument's
\* output depends on: "none", "render" (a Display implementation that counts
\* its calls) or "eval" (an argument expression with a side effect).
Arguments(pre, post, fails) ==
    [pieces |-> <<pre, post>>, fails |-> fails, drift |-> "none"]

Drifting(fmt, d) == [fmt EXCEPT !.drift = d]

PureFormatters ==
    UNION {{Arguments(Prefix(t, cut), SubSeq(t, cut + 1, Len(t)), FALSE) :
                cut \in 0..Len(t)} : t \in Texts}

Formatters ==
    PureFormatters \cup
    {Arguments(t, <<>>, TRUE) : t \in Texts} \cup
    {Drifting(f, d) : f \in {g \in PureFormatters : g.pieces[2] # <<>>},
                      d \in {"render", "eval"}}

\* the argument's output after j earlier evaluations: another text of the
\* same length (the non-NUL bytes 1 and 2 change places on odd j)
Bump(s, j) ==
    [i \in 1..Len(s) |-> IF s[i] = NUL \/ j % 2 = 0 THEN s[i] ELSE 3 - s[i]]

\* the formatter as its e-th evaluation of the argument expressions and its
\* k-th rendering present it
At(fmt, e, k) ==
    CASE fmt.drift = "render" ->
            [fmt EXCEPT !.pieces = <<fmt.pieces[1], Bump(fmt.pieces[2], k - 1)>>]
      [] fmt.drift = "eval" ->
            [fmt EXCEPT !.pieces = <<fmt.pieces[1], Bump(fmt.pieces[2], e - 1)>>]
      [] OTHER -> fmt

ProbeFormatters == {Arguments(<<>>, Repeat(1, n), FALSE) : n \in ProbeLens}

\* the text the formatter produces when nothing fails
RECURSIVE Concat(_, _)
Concat(pieces, i) ==
    IF i > Len(pieces) THEN <<>> ELSE pieces[i] \o Concat(pieces, i + 1)

Rendered(fmt) == Concat(fmt.pieces, 1)

\* ------------------------------------------------------------ arrayvec, std
\* ArrayString::<N>::try_push_str: all of s or nothing
try_push_str(cap, buf, s) ==
    IF Len(s) > cap - Len(buf)
    THEN [ok |-> FALSE, buf |-> buf]
    ELSE [ok |-> TRUE, buf |-> buf \o s]

\* ArrayString::<N>::try_push of a one-byte char
try_push(cap, buf, c) == try_push_str(cap, buf, <<c>>)

RECURSIVE write_pieces(_, _, _, _)
write_pieces(cap, buf, pieces, i) ==
    IF i > Len(pieces) THEN [ok |-> TRUE, buf |-> buf]
    ELSE LET r == try_push_str(cap, buf, pieces[i])
         IN  IF r.ok THEN write_pieces(cap, r.buf, pieces, i + 1) ELSE r

\* std::fmt::write(&mut ArrayString<N>, fmt): a piece that does not fit and a
\* failing Display implementation both surface as fmt::Error
fmt_write(cap, fmt) ==
    LET r == write_pieces(cap, <<>>, fmt.pieces, 1)
    IN  IF r.ok /\ fmt.fails THEN [ok |-> FALSE, buf |-> r.buf] ELSE r

\* std::fmt::format / format!: a String never overflows; a failing Display
\* implementation makes it panic
fmt_format(fmt) ==
    IF fmt.fails THEN [panic |-> TRUE, s |-> <<>>]
    ELSE [panic |-> FALSE, s |-> Rendered(fmt)]

\* CString::new: rejects any NUL byte, appends the terminator
CString_new(s) ==
    IF HasNul(s) THEN [ok |-> FALSE, cstr |-> <<>>]
    ELSE [ok |-> TRUE, cstr |-> s \o <<NUL>>]

\* ------------------------------------------------------- values and results
NoVal == [tag |-> "none", cap |-> 0, buf |-> <<>>, len |-> 0]

Ok(v, tried, heap) ==
    [status |-> "Ok", err |-> "", val |-> v, tried |-> tried, heap |-> heap]
Err(e, tried, heap) ==
    [status |-> "Err", err |-> e, val |-> NoVal, tried |-> tried, heap |-> heap]
Panic(e, tried, heap) ==
    [status |-> "Panic", err |-> e, val |-> NoVal, tried |-> tried, heap |-> heap]

\* ---------------------------------------------------------------- CStrStack
\* faulty variant: the bound check forgets the terminator (len > N)
CStrStack_new_no_room(N, fmt) ==
    LET w == fmt_write(N, fmt)
        bytes == w.buf
    IN  IF ~w.ok THEN Err("format failed", 1, FALSE)
        ELSE IF Len(bytes) > N THEN Err("stack buffer overflow", 1, FALSE)
        ELSE Ok([tag |-> "CStrStack", cap |-> N,
                 buf |-> [i \in 1..N |-> IF i <= Len(bytes) THEN bytes[i] ELSE NUL],
                 len |-> Len(bytes)], 1, FALSE)

CStrStack_new(N, fmt) ==
    LET w == fmt_write(N, fmt)
        bytes == w.buf
    IN  IF ~w.ok THEN Err("format failed", 1, FALSE)
        ELSE IF Len(bytes) + 1 > N THEN Err("stack buffer overflow", 1, FALSE)
        ELSE Ok([tag |-> "CStrStack", cap |-> N,
                 buf |-> [i \in 1..N |-> IF i <= Len(bytes) THEN bytes[i] ELSE NUL],
                 len |-> Len(bytes)], 1, FALSE)

\* ----------------------------------------------------------------- CStrHeap
CStrHeap_new(s) == [tag |-> "CStrHeap", cap |-> 0, buf |-> s, len |-> Len(s)]

\* -------------------------------------------------------------------- cstr!
\* the final else of the macro: format! again, CString::new(..).unwrap()
cstr_heap(fmt, tried) ==
    LET f == fmt_format(fmt)
        c == CString_new(f.s)
    IN  IF f.panic THEN Panic("formatting trait error", tried, TRUE)
        ELSE IF ~c.ok THEN Panic("unwrap on NulError", tried, TRUE)
        ELSE Ok(CStrHeap_new(c.cstr), tried, TRUE)

\* faulty variant: an inline failure goes straight to the heap form, no next candidate
cstr_chain_no_advance(sizes, i, fmt) ==
    IF i > Len(sizes) THEN cstr_heap(At(fmt, 2, Len(sizes) + 1), Len(sizes))
    ELSE LET r == CStrStack_new(sizes[i], At(fmt, 1, i))
         IN  IF r.status = "Ok" THEN Ok(r.val, i, FALSE)
             ELSE cstr_heap(At(fmt, 2, i + 1), i)

\* the else-if chain over the candidate sizes, in list order: the i-th
\* attempt renders `args` (evaluated once, by format_args!) for the i-th time;
\* the final else evaluates the argument expressions again, in format!
RECURSIVE cstr_chain(_, _, _)
cstr_chain(sizes, i, fmt) ==
    IF i > Len(sizes) THEN cstr_heap(At(fmt, 2, Len(sizes) + 1), Len(sizes))
    ELSE LET r == CStrStack_new(sizes[i], At(fmt, 1, i))
         IN  IF r.status = "Ok" THEN Ok(r.val, i, FALSE)
             ELSE cstr_chain(sizes, i + 1, fmt)

cstr(sizes, fmt) == cstr_chain(sizes, 1, fmt)

DefaultSizes == <<DefaultSmall, DefaultLarge>>

cstr_default(fmt) == cstr(DefaultSizes, fmt)

\* -------------------------------------------------------------- CArrayString
Stack(arr, N) == [tag |-> "Stack", cap |-> N, buf |-> arr, len |-> Len(arr)]
Heap(cs, N) == [tag |-> "Heap", cap |-> N, buf |-> cs, len |-> Len(cs)]

\* the inner fn of CArrayString::new: write, then push the terminator
try_stack(N, fmt) ==
    LET w == fmt_write(N, fmt)
        p == try_push(N, w.buf, NUL)
    IN  IF ~w.ok THEN [ok |-> FALSE, err |-> "FormatError", arr |-> <<>>]
        ELSE IF ~p.ok THEN [ok |-> FALSE, err |-> "OverflowError", arr |-> <<>>]
        ELSE [ok |-> TRUE, err |-> "", arr |-> p.buf]

\* the same Arguments are rendered by try_stack and again by fmt::format
CArrayString_new(N, fmt) ==
    LET t == try_stack(N, At(fmt, 1, 1))
        f == fmt_format(At(fmt, 1, 2))
        c == CString_new(f.s)
    IN  IF t.ok THEN Ok(Stack(t.arr, N), 1, FALSE)
        ELSE IF f.panic THEN Panic("formatting trait error", 1, TRUE)
        ELSE IF ~c.ok THEN Panic("unwrap on NulError", 1, TRUE)
        ELSE Ok(Heap(c.cstr, N), 1, TRUE)

\* faulty variant: the inline test is count_bytes() <= N
from_CStr_le(N, value) ==
    IF Len(value) <= N
    THEN Ok(Stack(try_push(N, try_push_str(N, <<>>, value).buf, NUL).buf, N), 1, FALSE)
    ELSE Ok(Heap(value \o <<NUL>>, N), 0, TRUE)

\* From<&CStr>: value is the CStr's bytes without the terminator
from_CStr(N, value) ==
    IF Len(value) < N
    THEN Ok(Stack(try_push(N, try_push_str(N, <<>>, value).buf, NUL).buf, N), 1, FALSE)
    ELSE Ok(Heap(value \o <<NUL>>, N), 0, TRUE)

\* CStr::from_bytes_with_nul: exactly one NUL, at the end
CStr_from_bytes_with_nul(b) ==
    LET pos == memchr0(b)
    IN  IF pos > Len(b) THEN [ok |-> FALSE, err |-> "NotNulTerminated", cstr |-> <<>>]
        ELSE IF pos = Len(b) THEN [ok |-> TRUE, err |-> "", cstr |-> Prefix(b, pos - 1)]
        ELSE [ok |-> FALSE, err |-> "InteriorNul", cstr |-> <<>>]

\* TryFrom<&[u8]>
try_from_bytes(N, value) ==
    LET c == CStr_from_bytes_with_nul(value)
    IN  IF c.ok THEN from_CStr(N, c.cstr)
        ELSE Err(c.err, 0, FALSE)

\* From<&CString>
from_ref_CString(N, value) == from_CStr(N, value)

\* faulty variant: the owned conversion takes the borrowed conversion's path
from_CString_via_ref(N, value) == from_CStr(N, value)

\* From<CString>: value is the CString's bytes without the terminator
from_CString(N, value) == Ok(Heap(value \o <<NUL>>, N), 0, TRUE)

\* faulty variant: the inline path skips the search for a NUL
try_from_str_unchecked(N, value) ==
    IF Len(value) < N
    THEN Ok(Stack(try_push(N, try_push_str(N, <<>>, value).buf, NUL).buf, N), 1, FALSE)
    ELSE LET c == CString_new(value)
         IN  IF c.ok THEN Ok(Heap(c.cstr, N), 0, TRUE)
             ELSE Err("NulError", 0, TRUE)

\* TryFrom<&str>
try_from_str(N, value) ==
    IF Len(value) < N
    THEN IF memchr0(value) <= Len(value)
         THEN Err("ContainsNulError", 1, FALSE)
         ELSE Ok(Stack(try_push(N, try_push_str(N, <<>>, value).buf, NUL).buf, N), 1, FALSE)
    ELSE LET c == CString_new(value)
         IN  IF c.ok THEN Ok(Heap(c.cstr, N), 0, TRUE)
             ELSE Err("NulError", 0, TRUE)

\* TryFrom<&String>
try_from_String(N, value) == try_from_str(N, value)

\* ---------------------------------------------------------------- accessors
\* the byte run behind as_ptr (the initialised bytes of the storage)
as_ptr(v) == v.buf

\* what a C callee (CStr::from_ptr, strlen) reads from the run
CStr_from_ptr(run) == Prefix(run, memchr0(run) - 1)

\* the reader ran off the end of the run without meeting a NUL
Overrun(run) == memchr0(run) > Len(run)

\* CStr::from_bytes_with_nul_unchecked(slice): the possible contents of the
\* resulting &CStr.  With an interior NUL the precondition of the unsafe
\* call is broken: the view is the slice without its last byte (slice
\* representation) or the run up to the first NUL (length recomputed).
CStr_unchecked(slice) ==
    LET whole == Prefix(slice, Len(slice) - 1)
    IN  IF HasNul(whole) THEN {whole, CStr_from_ptr(slice)} ELSE {whole}

\* faulty variant: the inline slice stops at len, losing the last content byte
as_cstr_short(v) ==
    CASE v.tag = "CStrStack" -> CStr_unchecked(Prefix(v.buf, v.len))
      [] v.tag = "Stack" -> CStr_unchecked(Prefix(v.buf, Len(v.buf) - 1))
      [] OTHER -> {Prefix(v.buf, Len(v.buf) - 1)}

\* CStrStack::as_cstr / CStrHeap::as_cstr / CArrayString::as_c_str
as_cstr(v) ==
    CASE v.tag = "CStrStack" -> CStr_unchecked(Prefix(v.buf, v.len + 1))
      [] v.tag = "Stack" -> CStr_unchecked(v.buf)
      [] OTHER -> {Prefix(v.buf, Len(v.buf) - 1)}

\* ------------------------------------------- derived Eq, Ord, Hash (enum)
Discriminant(v) == IF v.tag = "Stack" THEN 0 ELSE 1

RECURSIVE LexCmp(_, _, _)
LexCmp(a, b, i) ==
    IF i > Len(a) /\ i > Len(b) THEN "Equal"
    ELSE IF i > Len(a) THEN "Less"
    ELSE IF i > Len(b) THEN "Greater"
    ELSE IF a[i] < b[i] THEN "Less"
    ELSE IF a[i] > b[i] THEN "Greater"
    ELSE LexCmp(a, b, i + 1)

DerivedEq(a, b) == Discriminant(a) = Discriminant(b) /\ a.buf = b.buf

DerivedCmp(a, b) ==
    IF Discriminant(a) < Discriminant(b) THEN "Less"
    ELSE IF Discriminant(a) > Discriminant(b) THEN "Greater"
    ELSE LexCmp(a.buf, b.buf, 1)

\* what #[derive(Hash)] feeds the hasher: the discriminant, then the str
\* bytes and 255 (ArrayString) or the length and the bytes (CString)
DerivedHash(v) ==
    IF v.tag = "Stack" THEN <<0>> \o v.buf \o <<255>>
    ELSE <<1, Len(v.buf)>> \o v.buf

\* ==================================================================== state
\* call : the constructor last called, with its inputs
\* ret  : its outcome (a value, a returned error, or a panic)
\* view : what as_cstr / as_c_str returned for ret.val, once called
\* ffi  : what a C callee read through as_ptr of ret.val, once called
\* other: a second CArrayString<N> built from the content of ret.val
\* cmp  : the outcome of comparing ret.val with other
VARIABLES call, ret, view, ffi, other, cmp

vars == <<call, ret, view, ffi, other, cmp>>

NoArgs == Arguments(<<>>, <<>>, FALSE)
Unseen == [seen |-> FALSE, bytes |-> <<>>, overrun |-> FALSE]
NoCmp == [seen |-> FALSE, eq |-> FALSE, ord |-> "", hash_eq |-> FALSE,
          view_eq |-> FALSE, ffi_eq |-> FALSE]

Call(op, N, sizes, fmt, src) ==
    [op |-> op, cap |-> N, sizes |-> sizes, fmt |-> fmt, src |-> src]

\* candidate lists of cstr!([..], ..): none, one or two sizes, in any order
SizeLists == {<<>>} \cup {<<a>> : a \in Caps} \cup {<<a, b>> : a \in Caps, b \in Caps}

\* sources of the conversions: &CStr / CString contents hold no NUL
CStrContents == SeqsUpTo(NonNul, MaxLen)

Init ==
    /\ call = Call("none", 0, <<>>, NoArgs, <<>>)
    /\ ret = Err("", 0, FALSE)
    /\ view = Unseen
    /\ ffi = Unseen
    /\ other = NoVal
    /\ cmp = NoCmp

\* nothing is held: the next constructor call may start
Idle == call.op = "none"

Fresh == view' = Unseen /\ ffi' = Unseen /\ other' = NoVal /\ cmp' = NoCmp

CallCStrStackNew ==
    /\ Idle
    /\ \E N \in Caps, fmt \in Formatters :
        /\ call' = Call("CStrStack::new", N, <<>>, fmt, <<>>)
        /\ ret' = CStrStack_new(N, fmt)
        /\ Fresh

CallCstr ==
    /\ Idle
    /\ \E sizes \in SizeLists, fmt \in Formatters :
        /\ call' = Call("cstr!", 0, sizes, fmt, <<>>)
        /\ ret' = cstr(sizes, fmt)
        /\ Fresh

CallCstrDefault ==
    /\ Idle
    /\ \E fmt \in Formatters \cup ProbeFormatters :
        /\ call' = Call("cstr!", 0, DefaultSizes, fmt, <<>>)
        /\ ret' = cstr_default(fmt)
        /\ Fresh

CallCArrayStringNew ==
    /\ Idle
    /\ \E N \in Caps, fmt \in Formatters :
        /\ call' = Call("CArrayString::new", N, <<>>, fmt, <<>>)
        /\ ret' = CArrayString_new(N, fmt)
        /\ Fresh

CallFromCStr ==
    /\ Idle
    /\ \E N \in Caps, s \in CStrContents :
        /\ call' = Call("from(&CStr)", N, <<>>, NoArgs, s)
        /\ ret' = from_CStr(N, s)
        /\ Fresh

CallTryFromBytes ==
    /\ Idle
    /\ \E N \in Caps, b \in ByteSlices :
        /\ call' = Call("try_from(&[u8])", N, <<>>, NoArgs, b)
        /\ ret' = try_from_bytes(N, b)
        /\ Fresh

CallFromRefCString ==
    /\ Idle
    /\ \E N \in Caps, s \in CStrContents :
        /\ call' = Call("from(&CString)", N, <<>>, NoArgs, s)
        /\ ret' = from_ref_CString(N, s)
        /\ Fresh

CallFromCString ==
    /\ Idle
    /\ \E N \in Caps, s \in CStrContents :
        /\ call' = Call("from(CString)", N, <<>>, NoArgs, s)
        /\ ret' = from_CString(N, s)
        /\ Fresh

CallTryFromStr ==
    /\ Idle
    /\ \E N \in Caps, s \in Texts :
        /\ call' = Call("try_from(&str)", N, <<>>, NoArgs, s)
        /\ ret' = try_from_str(N, s)
        /\ Fresh

CallTryFromString ==
    /\ Idle
    /\ \E N \in Caps, s \in Texts :
        /\ call' = Call("try_from(&String)", N, <<>>, NoArgs, s)
        /\ ret' = try_from_String(N, s)
        /\ Fresh

\* as_cstr / as_c_str on the value held
CallAsCStr ==
    /\ ret.status = "Ok"
    /\ \E v \in as_cstr(ret.val) :
           view' = [seen |-> TRUE, bytes |-> v, overrun |-> FALSE]
    /\ UNCHANGED <<call, ret, ffi, other, cmp>>

\* as_ptr on the value held, read by the callee as a C string
CallAsPtr ==
    /\ ret.status = "Ok"
    /\ ffi' = [seen |-> TRUE, bytes |-> CStr_from_ptr(as_ptr(ret.val)),
               overrun |-> Overrun(as_ptr(ret.val))]
    /\ UNCHANGED <<call, ret, view, other, cmp>>

IsCArrayString(v) == v.tag \in {"Stack", "Heap"}

\* CArrayString::<N>::from(x.as_c_str().to_owned()): same content, owned
RebuildFromCString ==
    /\ ret.status = "Ok" /\ IsCArrayString(ret.val) /\ view.seen
    /\ other' = from_CString(ret.val.cap, view.bytes).val
    /\ cmp' = NoCmp
    /\ UNCHANGED <<call, ret, view, ffi>>

\* CArrayString::<N>::from(x.as_c_str()): same content, borrowed
RebuildFromCStr ==
    /\ ret.status = "Ok" /\ IsCArrayString(ret.val) /\ view.seen
    /\ other' = from_CStr(ret.val.cap, view.bytes).val
    /\ cmp' = NoCmp
    /\ UNCHANGED <<call, ret, view, ffi>>

\* ==, cmp and hash of the two values, and their two accessors
Compare ==
    /\ other # NoVal
    /\ \E w \in as_cstr(other) :
           cmp' = [seen |-> TRUE,
                   eq |-> DerivedEq(ret.val, other),
                   ord |-> DerivedCmp(ret.val, other),
                   hash_eq |-> DerivedHash(ret.val) = DerivedHash(other),
                   view_eq |-> view.bytes = w,
                   ffi_eq |-> CStr_from_ptr(as_ptr(ret.val)) = CStr_from_ptr(as_ptr(other))]
    /\ UNCHANGED <<call, ret, view, ffi, other>>

\* the value (or the error) goes out of scope
Drop ==
    /\ ~Idle
    /\ call' = Call("none", 0, <<>>, NoArgs, <<>>)
    /\ ret' = Err("", 0, FALSE)
    /\ Fresh

Next ==
    \/ CallCStrStackNew
    \/ CallCstr
    \/ CallCstrDefault
    \/ CallCArrayStringNew
    \/ CallFromCStr
    \/ CallTryFromBytes
    \/ CallFromRefCString
    \/ CallFromCString
    \/ CallTryFromStr
    \/ CallTryFromString
    \/ CallAsCStr
    \/ CallAsPtr
    \/ RebuildFromCString
    \/ RebuildFromCStr
    \/ Compare
    \/ Drop

Spec == Init /\ [][Next]_vars

\* =================================================================== claims
IsFmtOp == call.op \in {"CStrStack::new", "cstr!", "CArrayString::new"}

\* the text handed to the constructor last called
Source == IF IsFmtOp THEN Rendered(call.fmt) ELSE call.src

\* the formatter renders one fixed text, without error, and it holds no NUL
PlainText == ~call.fmt.fails /\ call.fmt.drift = "none" /\ ~HasNul(Source)

MinOf(S) == CHOOSE x \in S : \A y \in S : x <= y

\* the candidates of the last cstr! call that have room for the text and
\* its terminator
Viable == {i \in 1..Len(call.sizes) : Len(Source) + 1 <= call.sizes[i]}

Ascending(sizes) == \A i \in 1..Len(sizes), j \in 1..Len(sizes) : i < j => sizes[i] <= sizes[j]

\* C1: cstr! on a NUL-free text of length L returns the inline form of the
\* first candidate Ni (in list order) with L + 1 <= Ni, which for an ascending
\* list is the smallest viable capacity, and the heap form exactly when no
\* candidate is viable; with [32, 128]: L = 5 -> 32, L = 100 -> 128,
\* L = 300 -> heap.
C1_FirstViableCandidate ==
    (call.op = "cstr!" /\ PlainText) =>
        /\ ret.status = "Ok"
        /\ (Viable = {}) <=> (ret.val.tag = "CStrHeap")
        /\ (Viable = {}) <=> ret.heap
        /\ Viable # {} =>
              /\ ret.val.tag = "CStrStack"
              /\ ret.tried = MinOf(Viable)
              /\ ret.val.cap = call.sizes[MinOf(Viable)]
              /\ Ascending(call.sizes) =>
                    ret.val.cap = MinOf({call.sizes[i] : i \in Viable})
        /\ call.sizes = DefaultSizes =>
              /\ Len(Source) = 5 => ret.val.tag = "CStrStack" /\ ret.val.cap = 32
              /\ Len(Source) = 100 => ret.val.tag = "CStrStack" /\ ret.val.cap = 128
              /\ Len(Source) = 300 => ret.val.tag = "CStrHeap"

\* C1 witness: the default list, a text of 100 bytes, the second candidate
C1_Witness ==
    /\ call.op = "cstr!" /\ PlainText
    /\ call.sizes = DefaultSizes /\ Len(Source) = 100
    /\ ret.status = "Ok" /\ ret.val.tag = "CStrStack" /\ ret.val.cap = 128
    /\ ret.tried = 2

\* C2: every value a constructor returns is NUL-terminated at the end of its
\* view and nowhere before: the byte of the as_ptr run at index len(view) is
\* 0 and no byte of the run below that index is 0.
C2_NulTerminatedView ==
    (ret.status = "Ok" /\ view.seen) =>
        /\ Len(view.bytes) + 1 <= Len(as_ptr(ret.val))
        /\ as_ptr(ret.val)[Len(view.bytes) + 1] = NUL
        /\ \A i \in 1..Len(view.bytes) : as_ptr(ret.val)[i] # NUL

\* C3: a value built from a NUL-free text s by CStrStack::new, cstr!,
\* CArrayString::new, try_from(&str) or from(&CStr) reads back as exactly s,
\* through the view accessor and through as_ptr, in either storage form.
C3_RoundTrip ==
    (/\ call.op \in {"CStrStack::new", "cstr!", "CArrayString::new",
                     "try_from(&str)", "from(&CStr)"}
     /\ PlainText /\ ret.status = "Ok") =>
        /\ view.seen => view.bytes = Source
        /\ ffi.seen => (ffi.bytes = Source /\ ~ffi.overrun)

\* C3 witness: a heap-form CArrayString read back both ways
C3_Witness ==
    /\ call.op = "CArrayString::new" /\ PlainText /\ ret.status = "Ok"
    /\ ret.val.tag = "Heap" /\ Len(Source) = call.cap + 1
    /\ view.seen /\ ffi.seen /\ view.bytes = Source /\ ffi.bytes = Source

\* C4: CStrStack::<N>::new on a text of length L that the formatter rendered
\* succeeds iff L + 1 <= N; L = N - 1 succeeds, L = N fails with the
\* capacity-overflow error, and N = 0 always fails.
C4_FixedCapacityBoundary ==
    (call.op = "CStrStack::new" /\ ~call.fmt.fails) =>
        /\ (ret.status = "Ok") <=> (Len(Source) + 1 <= call.cap)
        /\ ret.status \in {"Ok", "Err"}
        /\ Len(Source) = call.cap =>
              (ret.status = "Err" /\ ret.err = "stack buffer overflow")
        /\ call.cap = 0 => ret.status = "Err"

\* C4 witness: a text of exactly N bytes, N > 0, refused for want of the
\* terminator's byte
C4_Witness ==
    /\ call.op = "CStrStack::new" /\ ~call.fmt.fails
    /\ call.cap > 0 /\ Len(Source) = call.cap
    /\ ret.status = "Err" /\ ret.err = "stack buffer overflow"

\* C5: CStrStack::<N>::new on a rendered text with L + 1 > N fails with the
\* capacity-overflow error; "format failed" is returned only when the
\* formatter itself reports an error.
C5_OverflowIsOverflowError ==
    (call.op = "CStrStack::new" /\ ~call.fmt.fails /\ Len(Source) + 1 > call.cap) =>
        (ret.status = "Err" /\ ret.err = "stack buffer overflow")

\* C6: in cstr! and CArrayString::new a formatter failure during an inline
\* attempt is returned to the caller as an error, and neither a later
\* candidate nor the heap construction is attempted.
C6_FormatFailureShortCircuits ==
    (/\ call.fmt.fails
     /\ \/ call.op = "CArrayString::new"
        \/ call.op = "cstr!" /\ Len(call.sizes) >= 1) =>
        /\ ret.status = "Err"
        /\ ret.tried = 1
        /\ ~ret.heap

\* C7: construction through cstr! or CArrayString::new returns a value or an
\* error, for every input; it never panics.
C7_NoPanic ==
    call.op \in {"cstr!", "CArrayString::new"} => ret.status # "Panic"

\* a 0x00 byte of the source before its final position
InteriorNul(s) == \E i \in 1..(Len(s) - 1) : s[i] = NUL

\* C8: try_from(&str), try_from(&String) and try_from(&[u8]) on a source
\* with a 0x00 byte before its final position return an embedded-NUL error
\* and no value, on the inline path (length below N) and on the heap path.
C8_EmbeddedNulRejected ==
    (/\ call.op \in {"try_from(&str)", "try_from(&String)", "try_from(&[u8])"}
     /\ InteriorNul(call.src)) =>
        /\ ret.status = "Err"
        /\ ret.err \in {"ContainsNulError", "NulError", "InteriorNul"}
        /\ ret.val = NoVal

\* C8 witness: an interior NUL in a &str short enough for the inline path
C8_Witness ==
    /\ call.op = "try_from(&str)" /\ InteriorNul(call.src)
    /\ Len(call.src) < call.cap
    /\ ret.status = "Err" /\ ret.err = "ContainsNulError"

\* C9: for NUL-free content of length L, CArrayString::<N>::new,
\* try_from(&str) and from(&CStr) all choose Stack exactly when L + 1 <= N
\* and Heap exactly when L >= N.
C9_SameVariantChoice ==
    (/\ call.op \in {"CArrayString::new", "try_from(&str)", "from(&CStr)"}
     /\ PlainText) =>
        /\ ret.status = "Ok"
        /\ (ret.val.tag = "Stack") <=> (Len(Source) + 1 <= call.cap)
        /\ (ret.val.tag = "Heap") <=> (Len(Source) >= call.cap)

\* C9 witness: from(&CStr) at the boundary L = N, in the heap form
C9_Witness ==
    /\ call.op = "from(&CStr)" /\ call.cap > 0 /\ Len(Source) = call.cap
    /\ ret.status = "Ok" /\ ret.val.tag = "Heap"

\* C10: two CArrayString<N> values with the same content are told apart by
\* no observation but the variant tag: as_c_str, the C string behind as_ptr,
\* and the derived ==, cmp and hash all agree.
C10_StorageIndependence ==
    (cmp.seen /\ ~HasNul(view.bytes)) =>
        /\ cmp.view_eq
        /\ cmp.ffi_eq
        /\ cmp.eq
        /\ cmp.ord = "Equal"
        /\ cmp.hash_eq

\* C12: From<CString> yields the Heap variant for every N and every content
\* length, holding the CString's own bytes, also when the content would fit
\* inline (L + 1 <= N); From<&CString> and From<&CStr> yield Stack for that
\* same content.
C12_OwnedCStringStaysOnHeap ==
    /\ call.op = "from(CString)" =>
          /\ ret.status = "Ok"
          /\ ret.val.tag = "Heap"
          /\ ret.val.buf = call.src \o <<NUL>>
          /\ ~(ret.tried > 0)
    /\ (call.op \in {"from(&CString)", "from(&CStr)"}
            /\ Len(call.src) + 1 <= call.cap) =>
          /\ ret.status = "Ok"
          /\ ret.val.tag = "Stack"

\* C12 witness: an owned CString that would fit inline, kept in the heap form
C12_Witness ==
    /\ call.op = "from(CString)" /\ Len(call.src) + 1 <= call.cap
    /\ Len(call.src) > 0
    /\ ret.status = "Ok" /\ ret.val.tag = "Heap"

\* the text the i-th inline attempt of the last call rendered
InlineText(i) == Rendered(At(call.fmt, 1, i))

\* the content of the value held (its bytes before the terminator)
Content(v) == Prefix(v.buf, Len(v.buf) - 1)

\* C11: when CArrayString::new or cstr! ends in the heap form, the heap
\* value's content is the text that the failed inline attempt(s) rendered,
\* for every formatter and argument expression, also one whose output depends
\* on how many times it has been rendered or evaluated.
C11_FallbackKeepsContent ==
    (/\ call.op \in {"cstr!", "CArrayString::new"}
     /\ ret.status = "Ok" /\ ret.heap /\ ret.tried >= 1) =>
        \A i \in 1..ret.tried : Content(ret.val) = InlineText(i)

====
